---- MODULE Spec2Model ----
(***************************************************************************)
(* Per-peer settlement engine of ilp-plugin-ethereum (src/src/account.ts): *)
(* the EthereumAccount state machine with its two ReducerQueues, the       *)
(* on-chain channel registry it reads and writes, the channel-ownership    *)
(* keys of the store, and the ILP PREPARE admission path.                  *)
(*                                                                         *)
(* Amounts are integers.  BigNumber has no width, so no wrap-around is     *)
(* modelled.  BigNumber#isPositive() is true for +0 (it tests the sign     *)
(* only), and is modelled so.                                              *)
(***************************************************************************)
EXTENDS Integers, Sequences, FiniteSets, TLC

VARIABLES
  chain,              \* contract.methods.channels: channelId -> on-chain channel
  store,              \* master._store: "<channelId>:incoming-channel" -> accountName
  ethereumAddress,    \* account.ethereumAddress
  receivableBalance,  \* account.receivableBalance (gwei)
  payableBalance,     \* account.payableBalance (gwei)
  payoutAmount,       \* account.payoutAmount (gwei)
  incoming,           \* account.incoming: ReducerQueue<ClaimablePaymentChannel | undefined>
  outgoing,           \* account.outgoing: ReducerQueue<PaymentChannel | undefined>
  watcher,            \* this.watcher (timer: 0 is null) and the interval timers still active
  prepares,           \* ilp PREPAREs of the account suspended at `await this.dataHandler`
  arrivals,           \* per queue: the pending reducers in the order add() received them
  sentClaims,         \* per account: the last claim handed to sendClaim
  lastDecision,       \* per account: the last step of handleData(ilp): an admission decision or a reply
  keptDebit,          \* per account: sum of PREPARE amounts debited and not rolled back
  credited,           \* per account: sum of gwei amounts validateClaim took off receivableBalance
  unloaded            \* per account: unload() was called on the account object

vars == <<chain, store, ethereumAddress, receivableBalance, payableBalance,
          payoutAmount, incoming, outgoing, watcher, prepares, arrivals,
          sentClaims, lastDecision, keptDebit, credited, unloaded>>

(***************************************************************************)
(* Bounds of the model                                                     *)
(***************************************************************************)
\* wei per gwei: 10^9 in the program, scaled down to fit TLC's integers
WeiPerGwei == 2
\* longest pending list of one ReducerQueue
MaxPending == 2
\* largest payableBalance / payoutAmount the environment drives the account to
MaxPayable == 2
\* largest number of deposits (of OutgoingChannelAmount) a channel receives
MaxFunding == 2
\* largest value (wei) of a claim a peer presents
MaxClaimValue == 3
\* most validateClaim reducers a peer keeps pending on one incoming queue
MaxPendingClaims == 1
\* the money handler fails only while no more than this (gwei) was credited
MaxCredited == 1
\* interval timers one account has at a time
MaxTimers == 2
MaxInFlight == 2

(***************************************************************************)
(* Values                                                                  *)
(***************************************************************************)
Accounts == {"A", "B"}
OutAccounts == {"A"}

Undefined == [type |-> "undefined"]
NoSignature == [type |-> "undefined"]
NoAmount == -1

\* master._ethereumAddress, the peer's payout address, the configured contract
OurAddress == "0xaa"
PeerAddress == "0xBB"
ContractAddress == "0xCC"

\* String.prototype.toLowerCase on the address strings of the model
toLowerCase(s) ==
  CASE s = "0xAA" -> "0xaa"
    [] s = "0xBB" -> "0xbb"
    [] s = "0xCC" -> "0xcc"
    [] s = "0xDD" -> "0xdd"
    [] OTHER -> s

OutChannelIds == {"o1", "o2"}
InChannelIds == {"c1", "c2"}
ChannelIds == OutChannelIds \cup InChannelIds

\* master._outgoingChannelAmount (gwei), master._outgoingDisputePeriod (blocks)
OutgoingChannelAmount == 1
OutgoingDisputePeriod == 2

\* master._minIncomingDisputePeriod (blocks)
MinIncomingDisputePeriod == 2
MaxPacketAmount == 2
MaxBalance == 3
\* value (wei) a peer escrows when it opens a channel; a deposit adds one wei
IncomingChannelValue == 2

\* the retry limit of every refresh / validation loop: `attempts > 20`
MaxAttempts == 20

Max(a, b) == IF a >= b THEN a ELSE b
Min(a, b) == IF a <= b THEN a ELSE b

\* BigNumber#isPositive: the sign is positive, which includes +0
isPositive(x) == x >= 0

\* convert(gwei(x), wei())
GweiToWei(x) == x * WeiPerGwei
\* convert(wei(x), gwei()).decimalPlaces(0, ROUND_DOWN), for x >= 0
WeiToGweiFloor(x) == x \div WeiPerGwei

(***************************************************************************)
(* utils/contract                                                          *)
(***************************************************************************)
NoChannel == [open |-> FALSE, closed |-> FALSE]
ClosedChannel == [open |-> FALSE, closed |-> TRUE]

\* fetchChannel(contract, channelId): the channel as the chain holds it, its
\* spent 0 and unsigned; undefined when the contract has no such channel
fetchChannel(ch, channelId) ==
  IF ~ch[channelId].open THEN Undefined
  ELSE [type |-> "channel",
        channelId |-> channelId,
        contractAddress |-> ContractAddress,
        sender |-> ch[channelId].sender,
        receiver |-> ch[channelId].receiver,
        value |-> ch[channelId].value,
        disputePeriod |-> ch[channelId].disputePeriod,
        disputedUntil |-> ch[channelId].disputedUntil,
        spent |-> 0,
        signature |-> NoSignature]

\* updateChannel(contract, cachedChannel): the chain's view of the channel with
\* the cached claim (spent, signature) kept; undefined when the channel is gone
updateChannel(ch, cachedChannel) ==
  LET fetched == fetchChannel(ch, cachedChannel.channelId)
  IN IF fetched = Undefined THEN Undefined
     ELSE [cachedChannel EXCEPT !.sender = fetched.sender,
                                !.receiver = fetched.receiver,
                                !.value = fetched.value,
                                !.disputePeriod = fetched.disputePeriod,
                                !.disputedUntil = fetched.disputedUntil]

remainingInChannel(channel) == channel.value - channel.spent
spentFromChannel(channel) == channel.spent
isDisputed(channel) == channel.disputedUntil > 0

\* the signature of `signer` over soliditySha3(contractAddress, channelId, value)
Sign(signer, contractAddress, channelId, value) ==
  [type |-> "signature", channelId |-> channelId,
   contractAddress |-> contractAddress, value |-> value, signer |-> signer]

\* isValidClaimSignature(claim, channel): the address recovered from the
\* signature over the claim's own fields is the channel's sender
isValidClaimSignature(claim, channel) ==
  /\ claim.signature # NoSignature
  /\ claim.signature.contractAddress = claim.contractAddress
  /\ claim.signature.channelId = claim.channelId
  /\ claim.signature.value = claim.value
  /\ toLowerCase(claim.signature.signer) = toLowerCase(channel.sender)

(***************************************************************************)
(* utils/queue: ReducerQueue                                               *)
(***************************************************************************)
NoClaim == [type |-> "undefined"]

\* a pending reducer: the closure add() was given (its kind and the values it
\* captured: claim, amount or timer, requireDisputed) and its priority
Task(kind, priority, claim, amount, requireDisputed) ==
  [claim |-> claim, kind |-> kind, priority |-> priority, amount |-> amount,
   requireDisputed |-> requireDisputed]

\* `failed`: the handle add() returned for the reducer that ended last was
\* rejected, and no reducer has started since
NewQueue(state) ==
  [state |-> state, queue |-> <<>>, running |-> {}, failed |-> FALSE]

\* a slip that appends, whatever the priority
InsertIndexAtEnd(queue, priority) == 1 + Len(queue)

\* the index add() inserts at: behind every pending reducer of the same or a
\* higher priority, in front of the first one of a lower priority
InsertIndex(queue, priority) ==
  1 + Cardinality({i \in 1..Len(queue) : queue[i].priority >= priority})

\* add(reducer, priority)
QueueAdd(q, task) ==
  LET i == InsertIndex(q.queue, task.priority)
  IN [q EXCEPT !.queue = SubSeq(q.queue, 1, i - 1) \o <<task>>
                           \o SubSeq(q.queue, i, Len(q.queue))]

\* a slip that takes the next reducer while one is still in flight
QueueCanRunWhileBusy(q) == q.queue # <<>>

\* a reducer is taken off the pending list only while none is in flight
QueueCanRun(q) == q.queue # <<>> /\ q.running = {}

Activation(task) ==
  [channelId |-> "", channel |-> Undefined, task |-> task, pc |-> "start",
   attempts |-> 0, base |-> 0]

QueueStart(q) ==
  [q EXCEPT !.queue = Tail(q.queue),
            !.running = q.running \cup {Activation(Head(q.queue))},
            !.failed = FALSE]

\* the reducer moves on to its next await
QueueStep(q, r, r2) == [q EXCEPT !.running = (q.running \ {r}) \cup {r2}]

\* the reducer resolved: its result becomes the state
QueueFinish(q, r, newState) ==
  [q EXCEPT !.state = newState, !.running = q.running \ {r},
            !.failed = FALSE]

\* a slip that forgets the state when the reducer throws
QueueFailDropsState(q, r) ==
  [q EXCEPT !.state = Undefined, !.running = q.running \ {r},
            !.failed = TRUE]

\* the reducer threw: the state is kept and the handle is rejected
QueueFail(q, r) == [q EXCEPT !.running = q.running \ {r}, !.failed = TRUE]

RemoveFirst(s, t) ==
  LET idx == {i \in 1..Len(s) : s[i] = t}
      i == CHOOSE j \in idx : \A k \in idx : j <= k
  IN IF idx = {} THEN s ELSE SubSeq(s, 1, i - 1) \o SubSeq(s, i + 1, Len(s))


(***************************************************************************)
(* Initial state: a freshly constructed account per peer, nothing on chain *)
(***************************************************************************)
NoAddress == ""
NoDecision == [type |-> "undefined"]

Init ==
  /\ chain = [id \in ChannelIds |-> NoChannel]
  /\ store = [id \in ChannelIds |-> ""]
  /\ ethereumAddress = [a \in Accounts |-> NoAddress]
  /\ receivableBalance = [a \in Accounts |-> 0]
  /\ payableBalance = [a \in Accounts |-> 0]
  /\ payoutAmount = [a \in Accounts |-> 0]
  /\ incoming = [a \in Accounts |-> NewQueue(Undefined)]
  /\ outgoing = [a \in Accounts |-> NewQueue(Undefined)]
  /\ watcher = [a \in Accounts |-> [timer |-> 1, active |-> {1}]]
  /\ prepares = [a \in Accounts |-> <<>>]
  /\ arrivals = [a \in Accounts |-> [incoming |-> <<>>, outgoing |-> <<>>]]
  /\ sentClaims = [a \in Accounts |-> NoClaim]
  /\ lastDecision = [a \in Accounts |-> NoDecision]
  /\ keptDebit = [a \in Accounts |-> 0]
  /\ credited = [a \in Accounts |-> 0]
  /\ unloaded = [a \in Accounts |-> FALSE]

chainVars == <<chain, store>>
incomingVars == <<incoming, watcher, credited>>
ilpVars == <<receivableBalance, prepares, lastDecision, keptDebit>>
outgoingVars == <<outgoing, payableBalance, payoutAmount, sentClaims>>

\* A queue with pending reducers and none in flight runs the next one as a
\* promise continuation, before the event loop delivers the next message,
\* timer tick or I/O completion: those are handled only when this holds
EventLoopTurn ==
  \A a \in Accounts : ~QueueCanRun(incoming[a]) /\ ~QueueCanRun(outgoing[a])

(***************************************************************************)
(* Address linking (linkEthereumAddress, fetchEthereumAddress)             *)
(***************************************************************************)
\* what a peer may put in the ethereumAddress field of an `info` message
InfoValues == {"0xBB", "0xbb", "0xDD", "zz", "<number>"}
isString(x) == x # "<number>"
\* Web3.utils.isAddress
isAddress(x) == toLowerCase(x) \in {"0xaa", "0xbb", "0xcc", "0xdd"}

\* a slip that links whatever valid address the latest `info` carries
linkEthereumAddressRebinds(currentAddress, infoAddress) ==
  IF ~isString(infoAddress) THEN currentAddress
  ELSE IF ~isAddress(infoAddress) THEN currentAddress
  ELSE infoAddress

\* linkEthereumAddress: the account's address after an `info` with this value
linkEthereumAddress(currentAddress, infoAddress) ==
  IF ~isString(infoAddress) THEN currentAddress
  ELSE IF ~isAddress(infoAddress) THEN currentAddress
  ELSE IF currentAddress # NoAddress THEN currentAddress
  ELSE infoAddress

\* handleData, `info` branch
HandleInfo(a, infoAddress) ==
  /\ EventLoopTurn
  /\ ethereumAddress' =
       [ethereumAddress EXCEPT ![a] = linkEthereumAddress(@, infoAddress)]
  /\ UNCHANGED <<chainVars, unloaded, incomingVars, ilpVars, outgoingVars, arrivals>>

(***************************************************************************)
(* Outgoing queue: enqueueing                                              *)
(***************************************************************************)
PendingOrRunning(q, kind) ==
  Cardinality({i \in 1..Len(q.queue) : q.queue[i].kind = kind})
    + Cardinality({r \in q.running : r.task.kind = kind})

AddOutgoing(a, task) ==
  /\ Len(outgoing[a].queue) < MaxPending
  /\ outgoing' = [outgoing EXCEPT ![a] = QueueAdd(@, task)]
  /\ arrivals' = [arrivals EXCEPT ![a].outgoing = Append(@, task)]

\* sendMoney(amount?): enqueue the settlement reducer
SendMoneyCall(a, amount) ==
  /\ EventLoopTurn
  /\ payoutAmount[a] + Max(amount, 0) <= MaxPayable
  /\ AddOutgoing(a, Task("sendMoney", 0, NoClaim, amount, FALSE))
  /\ UNCHANGED <<chainVars, ethereumAddress, unloaded, incomingVars, ilpVars,
                 payableBalance, payoutAmount, sentClaims>>

FreshChannelIds == {id \in OutChannelIds : chain[id] = NoChannel}

\* fundOutgoingChannel(): enqueue the open-or-deposit reducer
FundOutgoingChannelCall(a) ==
  LET n == PendingOrRunning(outgoing[a], "fundOutgoingChannel")
      cached == outgoing[a].state
      v == IF cached = Undefined THEN 0 ELSE cached.value
  IN /\ EventLoopTurn
     /\ Cardinality(FreshChannelIds) > n
     /\ v + (n + 1) * GweiToWei(OutgoingChannelAmount)
          <= MaxFunding * GweiToWei(OutgoingChannelAmount)
     /\ AddOutgoing(a, Task("fundOutgoingChannel", 0, NoClaim,
                            OutgoingChannelAmount, FALSE))
     /\ UNCHANGED <<chainVars, ethereumAddress, unloaded, incomingVars, ilpVars,
                    payableBalance, payoutAmount, sentClaims>>

\* the queue takes the next pending reducer
StartOutgoing(a) ==
  /\ QueueCanRun(outgoing[a])
  /\ outgoing' = [outgoing EXCEPT ![a] = QueueStart(@)]
  /\ arrivals' = [arrivals EXCEPT ![a].outgoing =
                    RemoveFirst(@, Head(outgoing[a].queue))]
  /\ UNCHANGED <<chainVars, ethereumAddress, unloaded, incomingVars, ilpVars,
                 payableBalance, payoutAmount, sentClaims>>

(***************************************************************************)
(* sendMoney reducer                                                       *)
(***************************************************************************)
\* signClaim(value, cachedChannel)
signClaim(value, cachedChannel) ==
  [cachedChannel EXCEPT
     !.spent = value,
     !.signature = Sign(OurAddress, cachedChannel.contractAddress,
                        cachedChannel.channelId, value)]

\* the claim sendClaim puts on the wire
SerializedClaim(channel) ==
  [type |-> "claim", channelId |-> channel.channelId,
   contractAddress |-> channel.contractAddress, value |-> channel.spent,
   signature |-> channel.signature]

\* a slip that signs for the whole budget, whatever is left in the channel
sendMoneyIncrementUncapped(cachedChannel, settlementBudget) == settlementBudget

\* claimIncrement = BigNumber.min(remainingInChannel(cachedChannel), settlementBudget)
sendMoneyIncrement(cachedChannel, settlementBudget) ==
  Min(remainingInChannel(cachedChannel), settlementBudget)

\* a slip that signs the increment alone instead of the new total
sendMoneyValueIncrementOnly(cachedChannel, claimIncrement) == claimIncrement

\* value = spentFromChannel(cachedChannel).plus(claimIncrement)
sendMoneyValue(cachedChannel, claimIncrement) ==
  spentFromChannel(cachedChannel) + claimIncrement

\* the reducer of sendMoney runs without an await: one step
sendMoney(a, r) ==
  /\ EventLoopTurn
  /\ r \in outgoing[a].running
  /\ r.task.kind = "sendMoney"
  /\ payoutAmount[a] + (IF r.task.amount # NoAmount THEN r.task.amount
                        ELSE Max(0, payableBalance[a])) <= MaxPayable
  /\ LET cachedChannel == outgoing[a].state
         amountToSend == IF r.task.amount # NoAmount THEN r.task.amount
                         ELSE Max(0, payableBalance[a])
         payout == payoutAmount[a] + amountToSend
         settlementBudget == GweiToWei(payout)
     IN IF cachedChannel = Undefined
        THEN /\ payoutAmount' = [payoutAmount EXCEPT ![a] = payout]
             /\ outgoing' = [outgoing EXCEPT ![a] = QueueFinish(@, r, Undefined)]
             /\ UNCHANGED <<payableBalance, sentClaims>>
        ELSE IF \/ ~isPositive(remainingInChannel(cachedChannel))
                \/ ~isPositive(settlementBudget)
        THEN /\ payoutAmount' = [payoutAmount EXCEPT ![a] = payout]
             /\ outgoing' = [outgoing EXCEPT ![a] = QueueFinish(@, r, cachedChannel)]
             /\ UNCHANGED <<payableBalance, sentClaims>>
        ELSE LET claimIncrement == sendMoneyIncrement(cachedChannel, settlementBudget)
                 value == sendMoneyValue(cachedChannel, claimIncrement)
                 updatedChannel == signClaim(value, cachedChannel)
                 claimIncrementGwei == WeiToGweiFloor(claimIncrement)
             IN /\ sentClaims' = [sentClaims EXCEPT ![a] = SerializedClaim(updatedChannel)]
                /\ payableBalance' = [payableBalance EXCEPT ![a] = @ - claimIncrementGwei]
                /\ payoutAmount' = [payoutAmount EXCEPT ![a] =
                                      Min(0, payout - claimIncrementGwei)]
                /\ outgoing' = [outgoing EXCEPT ![a] = QueueFinish(@, r, updatedChannel)]
  /\ UNCHANGED <<chainVars, ethereumAddress, unloaded, incomingVars, ilpVars, arrivals>>


(***************************************************************************)
(* fundOutgoingChannel reducer                                             *)
(***************************************************************************)
\* totalNewValue = channel.value.plus(value): the channel's value (wei) plus
\* the `value` argument as passed in (gwei)
totalNewValue(channel, value) == channel.value + value

\* `channel = cachedChannel && (await updateChannel(contract, cachedChannel))`;
\* `view` is the registry as the answering node shows it
fundRefreshSeeing(a, r, view) ==
  /\ EventLoopTurn
  /\ r \in outgoing[a].running
  /\ r.task.kind = "fundOutgoingChannel" /\ r.pc = "start"
  /\ LET cachedChannel == outgoing[a].state
         channel == IF cachedChannel = Undefined THEN Undefined
                    ELSE updateChannel(view, cachedChannel)
     IN outgoing' = [outgoing EXCEPT ![a] =
          QueueStep(@, r, [r EXCEPT !.channel = channel,
                                    !.pc = IF channel = Undefined
                                           THEN "fetchEthereumAddress"
                                           ELSE "deposit"])]
  /\ UNCHANGED <<chainVars, ethereumAddress, unloaded, incomingVars, ilpVars,
                 payableBalance, payoutAmount, sentClaims, arrivals>>

\* the refresh answered by a node that is up to date
fundRefresh(a, r) == fundRefreshSeeing(a, r, chain)

\* generateChannelId(): 32 random bytes, an id the contract has never seen
\* (the unused ids are interchangeable, so the model takes one of them)
generateChannelId == CHOOSE id \in FreshChannelIds : TRUE

\* `await this.fetchEthereumAddress()`, then the check that an address is
\* linked and generateChannelId(); `reply` is the peer's answer to the `info`
\* request ("none": no answer, an error, or no `info` in the answer)
fundFetchEthereumAddress(a, r, reply) ==
  /\ EventLoopTurn
  /\ r \in outgoing[a].running
  /\ r.pc = "fetchEthereumAddress"
  /\ LET address == IF ethereumAddress[a] # NoAddress \/ reply = "none"
                    THEN ethereumAddress[a]
                    ELSE linkEthereumAddress(ethereumAddress[a], reply)
     IN /\ ethereumAddress' = [ethereumAddress EXCEPT ![a] = address]
        /\ IF address = NoAddress
           THEN outgoing' = [outgoing EXCEPT ![a] = QueueFinish(@, r, Undefined)]
           ELSE outgoing' = [outgoing EXCEPT ![a] =
                  QueueStep(@, r, [r EXCEPT !.channelId = generateChannelId,
                                            !.pc = "open"])]
  /\ UNCHANGED <<chainVars, unloaded, incomingVars, ilpVars, payableBalance,
                 payoutAmount, sentClaims, arrivals>>

TxOutcomes == {"unauthorized", "reverted", "confirmed"}

\* `await authorize(txFee)`, sendTransaction() and the wait for the first
\* confirmation of open(channelId, ethereumAddress, disputePeriod)
fundOpen(a, r, outcome) ==
  /\ EventLoopTurn
  /\ r \in outgoing[a].running
  /\ r.pc = "open"
  /\ IF outcome = "confirmed"
     THEN /\ chain[r.channelId] = NoChannel
          /\ chain' = [chain EXCEPT ![r.channelId] =
               [open |-> TRUE, closed |-> FALSE,
                sender |-> OurAddress,
                receiver |-> ethereumAddress[a],
                value |-> GweiToWei(r.task.amount),
                disputePeriod |-> OutgoingDisputePeriod,
                disputedUntil |-> 0,
                was |-> {}]]
          /\ outgoing' = [outgoing EXCEPT ![a] =
               QueueStep(@, r, [r EXCEPT !.pc = "openRefresh"])]
     ELSE /\ outgoing' = [outgoing EXCEPT ![a] = QueueFail(@, r)]
          /\ UNCHANGED chain
  /\ UNCHANGED <<store, ethereumAddress, unloaded, incomingVars, ilpVars, payableBalance,
                 payoutAmount, sentClaims, arrivals>>

\* refreshChannel of the open branch: `visible` is whether the node that
\* answers fetchChannel already shows the confirmed channel
fundOpenRefresh(a, r, visible) ==
  /\ EventLoopTurn
  /\ r \in outgoing[a].running
  /\ r.pc = "openRefresh"
  /\ IF r.attempts > MaxAttempts
     THEN outgoing' = [outgoing EXCEPT ![a] = QueueFinish(@, r, Undefined)]
     ELSE LET updatedChannel == IF visible THEN fetchChannel(chain, r.channelId)
                                ELSE Undefined
          IN IF updatedChannel = Undefined
             THEN outgoing' = [outgoing EXCEPT ![a] =
                    QueueStep(@, r, [r EXCEPT !.attempts = @ + 1])]
             ELSE outgoing' = [outgoing EXCEPT ![a] =
                    QueueFinish(@, r, updatedChannel)]
  /\ UNCHANGED <<chainVars, ethereumAddress, unloaded, incomingVars, ilpVars,
                 payableBalance, payoutAmount, sentClaims, arrivals>>

\* the deposit branch up to the first confirmation of deposit(channelId)
fundDeposit(a, r, outcome) ==
  /\ EventLoopTurn
  /\ r \in outgoing[a].running
  /\ r.pc = "deposit"
  /\ IF outcome = "confirmed"
     THEN /\ chain[r.channel.channelId].open
          /\ chain' = [chain EXCEPT
               ![r.channel.channelId].value = @ + GweiToWei(r.task.amount),
               ![r.channel.channelId].was =
                  @ \cup {chain[r.channel.channelId].value}]
          /\ outgoing' = [outgoing EXCEPT ![a] =
               QueueStep(@, r, [r EXCEPT
                  !.base = totalNewValue(r.channel, r.task.amount),
                  !.pc = "depositRefresh"])]
     ELSE /\ outgoing' = [outgoing EXCEPT ![a] = QueueFail(@, r)]
          /\ UNCHANGED chain
  /\ UNCHANGED <<store, ethereumAddress, unloaded, incomingVars, ilpVars, payableBalance,
                 payoutAmount, sentClaims, arrivals>>

\* refreshChannel of the deposit branch; `view` is the registry as the
\* answering node shows it
fundDepositRefreshSeeing(a, r, view) ==
  /\ EventLoopTurn
  /\ r \in outgoing[a].running
  /\ r.pc = "depositRefresh"
  /\ IF r.attempts > MaxAttempts
     THEN outgoing' = [outgoing EXCEPT ![a] = QueueFinish(@, r, r.channel)]
     ELSE LET updatedChannel == updateChannel(view, r.channel)
              successfulDeposit == /\ updatedChannel # Undefined
                                   /\ updatedChannel.value >= r.base
          IN IF ~successfulDeposit
             THEN outgoing' = [outgoing EXCEPT ![a] =
                    QueueStep(@, r, [r EXCEPT !.attempts = @ + 1])]
             ELSE outgoing' = [outgoing EXCEPT ![a] =
                    QueueFinish(@, r, updatedChannel)]
  /\ UNCHANGED <<chainVars, ethereumAddress, unloaded, incomingVars, ilpVars,
                 payableBalance, payoutAmount, sentClaims, arrivals>>

\* the registry with the channel r deposits to at the value r read before
\* the deposit
AsBefore(r) ==
  IF chain[r.channel.channelId].open
  THEN [chain EXCEPT ![r.channel.channelId].value = r.channel.value]
  ELSE chain

\* the refresh answered by a node that shows the deposit (`visible`) or
\* the channel as it was before
fundDepositRefresh(a, r, visible) ==
  fundDepositRefreshSeeing(a, r, IF visible THEN chain ELSE AsBefore(r))

(***************************************************************************)
(* handlePrepareResponse, and the peer acting on the chain                 *)
(***************************************************************************)
ReplyKinds == {"fulfill", "T04", "F99"}

\* a slip that settles on a FULFILL only
shouldSettleOnFulfillOnly(reply) == reply = "fulfill"

\* shouldSettle = isFulfill(reply) || (isReject(reply) && reply.code === 'T04')
shouldSettle(reply) == reply \in {"fulfill", "T04"}

\* handlePrepareResponse(prepare, reply): what it does to the account
prepareResponse(a, amount, reply) ==
  /\ EventLoopTurn
  /\ payableBalance[a] + amount <= MaxPayable
  /\ LET settle == shouldSettle(reply)
     IN /\ payableBalance' = [payableBalance EXCEPT ![a] =
              IF reply = "fulfill" THEN @ + amount ELSE @]
        /\ IF settle
           THEN AddOutgoing(a, Task("sendMoney", 0, NoClaim, NoAmount, FALSE))
           ELSE UNCHANGED <<outgoing, arrivals>>
  /\ UNCHANGED <<chainVars, ethereumAddress, unloaded, incomingVars,
                 receivableBalance, prepares, keptDebit,
                 payoutAmount, sentClaims>>

\* handlePrepareResponse(prepare, reply)
handlePrepareResponse(a, amount, reply) ==
  /\ prepareResponse(a, amount, reply)
  /\ UNCHANGED lastDecision

\* the receiver of an outgoing channel redeems it on chain: the channel is gone
PeerClaimsChannel(id) ==
  /\ EventLoopTurn
  /\ id \in OutChannelIds
  /\ chain[id].open
  /\ chain' = [chain EXCEPT ![id] = ClosedChannel]
  /\ UNCHANGED <<store, ethereumAddress, unloaded, incomingVars, ilpVars, outgoingVars,
                 arrivals>>

(***************************************************************************)
(* The outgoing side of one account                                        *)
(***************************************************************************)
NextOut ==
  \E a \in OutAccounts :
    \/ \E info \in InfoValues : HandleInfo(a, info)
    \/ \E amount \in {NoAmount, 1} : SendMoneyCall(a, amount)
    \/ FundOutgoingChannelCall(a)
    \/ StartOutgoing(a)
    \/ \E r \in outgoing[a].running : sendMoney(a, r)
    \/ \E r \in outgoing[a].running : fundRefresh(a, r)
    \/ \E r \in outgoing[a].running, reply \in InfoValues \cup {"none"} :
         fundFetchEthereumAddress(a, r, reply)
    \/ \E r \in outgoing[a].running, o \in TxOutcomes : fundOpen(a, r, o)
    \/ \E r \in outgoing[a].running, v \in BOOLEAN : fundOpenRefresh(a, r, v)
    \/ \E r \in outgoing[a].running, o \in TxOutcomes : fundDeposit(a, r, o)
    \/ \E r \in outgoing[a].running, v \in BOOLEAN : fundDepositRefresh(a, r, v)
    \/ \E amount \in 1..MaxPayable, reply \in ReplyKinds :
         handlePrepareResponse(a, amount, reply)
    \/ \E id \in OutChannelIds : PeerClaimsChannel(id)

SpecOut == Init /\ [][NextOut]_vars


(***************************************************************************)
(* Properties of the outgoing channel                                      *)
(***************************************************************************)
\* C1: while the outgoing state cell holds a channel with the same channelId,
\* its `spent` never decreases, whichever reducer (sendMoney, or the refresh
\* and deposit of fundOutgoingChannel) writes the cell.
C1_SpentNeverDecreases ==
  [][\A a \in Accounts :
       (/\ outgoing[a].state # Undefined
        /\ outgoing'[a].state # Undefined
        /\ outgoing'[a].state.channelId = outgoing[a].state.channelId)
       => outgoing'[a].state.spent >= outgoing[a].state.spent]_vars

\* a deposit is being refreshed on a channel that already carries a claim
C1_Witness ==
  \E r \in outgoing["A"].running :
    /\ r.pc = "depositRefresh"
    /\ r.channel.spent > 0
    /\ chain[r.channel.channelId].open
    /\ chain[r.channel.channelId].value > r.channel.value

\* C2: a cached outgoing channel always has 0 <= spent <= value, and the
\* claim it carries is signed for exactly `spent`.
C2_SpentWithinValue ==
  \A a \in Accounts :
    outgoing[a].state # Undefined =>
      /\ 0 <= outgoing[a].state.spent
      /\ outgoing[a].state.spent <= outgoing[a].state.value
      /\ outgoing[a].state.signature # NoSignature =>
           outgoing[a].state.signature.value = outgoing[a].state.spent

\* sendMoney signed up to the very value of the channel while more was owed
C2_Witness ==
  /\ outgoing["A"].state # Undefined
  /\ outgoing["A"].state.value > 0
  /\ outgoing["A"].state.spent = outgoing["A"].state.value
  /\ sentClaims["A"] # NoClaim
  /\ payableBalance["A"] > 0


(***************************************************************************)
(* Incoming queue: the peer's channels on chain                            *)
(***************************************************************************)
\* enum IncomingTaskPriority
ClaimChannel == 3
ChannelWatcher == 2
ValidateClaim == 1

OpenVariants == {"good", "wrongReceiver", "shortDispute"}

\* a peer opens a channel: to us with a long enough dispute period, to
\* somebody else, or with a dispute period below the minimum
PeerOpensChannel(id, variant) ==
  /\ EventLoopTurn
  /\ id \in InChannelIds
  /\ chain[id] = NoChannel
  /\ chain' = [chain EXCEPT ![id] =
       [open |-> TRUE, closed |-> FALSE,
        sender |-> PeerAddress,
        receiver |-> IF variant = "wrongReceiver" THEN "0xDD" ELSE "0xAA",
        value |-> IncomingChannelValue,
        disputePeriod |-> IF variant = "shortDispute"
                          THEN MinIncomingDisputePeriod - 1
                          ELSE MinIncomingDisputePeriod,
        disputedUntil |-> 0]]
  /\ UNCHANGED <<store, ethereumAddress, unloaded, incomingVars, ilpVars, outgoingVars,
                 arrivals>>

\* the sender deposits one more wei
PeerDeposits(id) ==
  /\ EventLoopTurn
  /\ id \in InChannelIds
  /\ chain[id].open
  /\ chain[id].value < MaxClaimValue
  /\ chain' = [chain EXCEPT ![id].value = @ + 1]
  /\ UNCHANGED <<store, ethereumAddress, unloaded, incomingVars, ilpVars, outgoingVars,
                 arrivals>>

\* the sender starts a dispute
PeerStartsDispute(id) ==
  /\ EventLoopTurn
  /\ id \in InChannelIds
  /\ chain[id].open
  /\ chain[id].disputedUntil = 0
  /\ chain' = [chain EXCEPT ![id].disputedUntil = 1]
  /\ UNCHANGED <<store, ethereumAddress, unloaded, incomingVars, ilpVars, outgoingVars,
                 arrivals>>

\* the dispute period is over and the sender takes the escrow back
PeerSettles(id) ==
  /\ EventLoopTurn
  /\ id \in InChannelIds
  /\ chain[id].open
  /\ chain[id].disputedUntil > 0
  /\ chain' = [chain EXCEPT ![id] = ClosedChannel]
  /\ UNCHANGED <<store, ethereumAddress, unloaded, incomingVars, ilpVars, outgoingVars,
                 arrivals>>

(***************************************************************************)
(* Incoming queue: enqueueing                                              *)
(***************************************************************************)
\* a `machinomy` claim as the peer serialized it; `signer` is who signed the
\* digest of exactly these fields
Claim(channelId, contractAddress, value, signer) ==
  [type |-> "claim", channelId |-> channelId,
   contractAddress |-> contractAddress, value |-> value,
   signature |-> Sign(signer, contractAddress, channelId, value)]

\* claims signed by the channel's sender for our contract ...
GoodClaims(ids) ==
  {Claim(id, "0xcc", v, "0xbb") : id \in ids, v \in 0..MaxClaimValue}
\* ... and claims with one defect each: a negative value, another contract
\* (signed by the sender over that contract), a signature of somebody else
BadClaims(id) ==
  {Claim(id, "0xcc", -1, "0xbb"),
   Claim(id, "0xDD", IncomingChannelValue, "0xbb"),
   Claim(id, "0xcc", IncomingChannelValue, "0xDD")}

AddIncoming(a, task) ==
  /\ incoming' = [incoming EXCEPT ![a] = QueueAdd(@, task)]
  /\ arrivals' = [arrivals EXCEPT ![a].incoming = Append(@, task)]

\* handleData, `machinomy` branch
HandleClaim(a, claim) ==
  /\ EventLoopTurn
  /\ PendingOrRunning(incoming[a], "validateClaim") < MaxPendingClaims
  /\ AddIncoming(a, Task("validateClaim", ValidateClaim, claim, NoAmount, FALSE))
  /\ UNCHANGED <<chainVars, ethereumAddress, unloaded, watcher, credited,
                 ilpVars, outgoingVars>>

\* handleData, `requestClose` branch: claimIfProfitable()
HandleRequestClose(a) ==
  /\ EventLoopTurn
  /\ PendingOrRunning(incoming[a], "claimIfProfitable") = 0
  /\ AddIncoming(a, Task("claimIfProfitable", ClaimChannel, NoClaim, NoAmount, FALSE))
  /\ UNCHANGED <<chainVars, ethereumAddress, unloaded, watcher, credited,
                 ilpVars, outgoingVars>>

\* a tick of an active interval timer of startChannelWatcher
WatcherTick(a, timer) ==
  /\ EventLoopTurn
  /\ timer \in watcher[a].active
  /\ PendingOrRunning(incoming[a], "channelWatcher") = 0
  /\ AddIncoming(a, Task("channelWatcher", ChannelWatcher, NoClaim, timer, FALSE))
  /\ UNCHANGED <<chainVars, ethereumAddress, unloaded, watcher, credited,
                 ilpVars, outgoingVars>>

StartIncoming(a) ==
  /\ QueueCanRun(incoming[a])
  /\ incoming' = [incoming EXCEPT ![a] = QueueStart(@)]
  /\ arrivals' = [arrivals EXCEPT ![a].incoming =
                    RemoveFirst(@, Head(incoming[a].queue))]
  /\ UNCHANGED <<chainVars, ethereumAddress, unloaded, watcher, credited,
                 ilpVars, outgoingVars>>

(***************************************************************************)
(* validateClaim reducer                                                   *)
(***************************************************************************)
isCorrectContract(claim) ==
  toLowerCase(claim.contractAddress) = toLowerCase(ContractAddress)

amReceiver(channel) == toLowerCase(channel.receiver) = toLowerCase(OurAddress)

isAboveMinDisputePeriod(channel) ==
  channel.disputePeriod >= MinIncomingDisputePeriod

\* a slip that measures the claim against nothing instead of the cached claim
claimIncrementFromZero(claim, updatedChannel, cachedChannel) ==
  Min(claim.value, updatedChannel.value)

\* claimIncrement = min(claim.value, updatedChannel.value) - (cached spent or 0)
claimIncrement(claim, updatedChannel, cachedChannel) ==
  Min(claim.value, updatedChannel.value)
    - (IF cachedChannel # Undefined THEN cachedChannel.spent ELSE 0)

\* the timer id a new setInterval gets
FreeTimers(a) ==
  {t \in 1..MaxTimers :
     /\ t \notin watcher[a].active
     /\ \A i \in 1..Len(incoming[a].queue) : incoming[a].queue[i].amount # t
     /\ \A r \in incoming[a].running : r.task.amount # t}
NewTimer(a) == CHOOSE t \in FreeTimers(a) : \A u \in FreeTimers(a) : t <= u

\* from the best-claim check to `await this.moneyHandler(amount)`
validateAccounting(a, r, updatedChannel, cachedChannel) ==
  LET inc == claimIncrement(r.task.claim, updatedChannel, cachedChannel)
      isBestClaim == isPositive(inc)
      amount == WeiToGweiFloor(inc)
  IN IF ~isBestClaim /\ cachedChannel # Undefined
     THEN /\ incoming' = [incoming EXCEPT ![a] = QueueFinish(@, r, cachedChannel)]
          /\ UNCHANGED <<receivableBalance, credited>>
     ELSE IF isBestClaim
     THEN /\ receivableBalance' = [receivableBalance EXCEPT ![a] = @ - amount]
          /\ credited' = [credited EXCEPT ![a] = @ + amount]
          /\ incoming' = [incoming EXCEPT ![a] =
               QueueStep(@, r, [r EXCEPT !.channel = updatedChannel,
                                         !.base = amount,
                                         !.pc = "moneyHandler"])]
     ELSE /\ incoming' = [incoming EXCEPT ![a] =
               QueueStep(@, r, [r EXCEPT !.channel = updatedChannel,
                                         !.pc = "accept"])]
          /\ UNCHANGED <<receivableBalance, credited>>

\* `if (attempts > 20)` at the top of validateClaim
exhausted(attempts) == attempts > MaxAttempts

\* validateClaim(claim)(cachedChannel, attempts) up to its first await after
\* the chain lookup: a retry, a rejection, `await store.load`, or accounting
validateClaim(a, r) ==
  /\ EventLoopTurn
  /\ r \in incoming[a].running
  /\ r.task.kind = "validateClaim" /\ r.pc = "start"
  /\ LET claim == r.task.claim
         cachedChannel == incoming[a].state
         shouldFetchChannel ==
           cachedChannel = Undefined \/ claim.value > cachedChannel.value
         updatedChannel == IF shouldFetchChannel
                           THEN fetchChannel(chain, claim.channelId)
                           ELSE cachedChannel
         retry == incoming' = [incoming EXCEPT ![a] =
                    QueueStep(@, r, [r EXCEPT !.attempts = @ + 1])]
         return(state) == incoming' = [incoming EXCEPT ![a] =
                            QueueFinish(@, r, state)]
     IN IF exhausted(r.attempts)
        THEN return(cachedChannel) /\ UNCHANGED <<receivableBalance, credited>>
        ELSE IF cachedChannel = Undefined
        THEN /\ UNCHANGED <<receivableBalance, credited>>
             /\ IF updatedChannel = Undefined THEN retry
                ELSE IF \/ claim.value < 0
                        \/ ~isCorrectContract(claim)
                        \/ ~isValidClaimSignature(claim, updatedChannel)
                        \/ ~amReceiver(updatedChannel)
                        \/ ~isAboveMinDisputePeriod(updatedChannel)
                THEN return(Undefined)
                ELSE incoming' = [incoming EXCEPT ![a] =
                       QueueStep(@, r, [r EXCEPT !.channel = updatedChannel,
                                                 !.pc = "storeLoad"])]
        ELSE IF updatedChannel = Undefined
        THEN return(cachedChannel) /\ UNCHANGED <<receivableBalance, credited>>
        ELSE IF updatedChannel.value < claim.value
        THEN retry /\ UNCHANGED <<receivableBalance, credited>>
        ELSE IF \/ claim.channelId # cachedChannel.channelId
                \/ ~isValidClaimSignature(claim, updatedChannel)
        THEN return(cachedChannel) /\ UNCHANGED <<receivableBalance, credited>>
        ELSE validateAccounting(a, r, updatedChannel, cachedChannel)
  /\ UNCHANGED <<chainVars, ethereumAddress, unloaded, watcher, prepares,
                 lastDecision, keptDebit, outgoingVars, arrivals>>

\* a slip that never finds the key of the channel in the store
isLinkedNever(linkedAccount) == FALSE

\* typeof linkedAccount === 'string': the store holds an account name
isLinked(linkedAccount) == linkedAccount # ""

\* after `await this.master._store.load(channelKey)`: the ownership check,
\* the write of the key, and the accounting of the first claim
validateStoreLoaded(a, r) ==
  /\ EventLoopTurn
  /\ r \in incoming[a].running
  /\ r.pc = "storeLoad"
  /\ LET channelKey == r.task.claim.channelId
         linkedAccount == store[channelKey]
     IN IF isLinked(linkedAccount)
        THEN /\ incoming' = [incoming EXCEPT ![a] = QueueFinish(@, r, Undefined)]
             /\ UNCHANGED <<store, receivableBalance, credited>>
        ELSE /\ store' = [store EXCEPT ![channelKey] = a]
             /\ validateAccounting(a, r, r.channel, incoming[a].state)
  /\ UNCHANGED <<chain, ethereumAddress, unloaded, watcher, prepares,
                 lastDecision, keptDebit, outgoingVars, arrivals>>

\* the channel validateClaim returns for an accepted claim
acceptedChannel(updatedChannel, claim) ==
  [updatedChannel EXCEPT !.channelId = claim.channelId,
                         !.contractAddress = claim.contractAddress,
                         !.signature = claim.signature,
                         !.spent = claim.value]

\* `await this.moneyHandler(amount)` settles (or was skipped): the watcher is
\* restarted when there is none, and the claim becomes the cached channel
validateAccept(a, r, handlerThrows) ==
  /\ EventLoopTurn
  /\ r \in incoming[a].running
  /\ r.pc \in {"moneyHandler", "accept"}
  /\ IF handlerThrows
     THEN /\ r.pc = "moneyHandler"
          /\ credited[a] <= MaxCredited
          /\ incoming' = [incoming EXCEPT ![a] = QueueFail(@, r)]
          /\ UNCHANGED watcher
     ELSE /\ IF watcher[a].timer = 0
             THEN /\ FreeTimers(a) # {}
                  /\ watcher' = [watcher EXCEPT ![a] =
                       [timer |-> NewTimer(a),
                        active |-> @.active \cup {NewTimer(a)}]]
             ELSE UNCHANGED watcher
          /\ incoming' = [incoming EXCEPT ![a] =
               QueueFinish(@, r, acceptedChannel(r.channel, r.task.claim))]
  /\ UNCHANGED <<chainVars, ethereumAddress, unloaded, credited, ilpVars, outgoingVars,
                 arrivals>>


(***************************************************************************)
(* Channel watcher and claimIfProfitable reducers                          *)
(***************************************************************************)
\* the reducer a tick of startChannelWatcher enqueued (timer r.task.amount)
channelWatcher(a, r) ==
  /\ EventLoopTurn
  /\ r \in incoming[a].running
  /\ r.task.kind = "channelWatcher"
  /\ LET cachedChannel == incoming[a].state
         updatedChannel == IF cachedChannel = Undefined THEN Undefined
                           ELSE updateChannel(chain, cachedChannel)
         stopped == [timer |-> 0, active |-> watcher[a].active \ {r.task.amount}]
     IN IF updatedChannel = Undefined
        THEN /\ watcher' = [watcher EXCEPT ![a] = stopped]
             /\ incoming' = [incoming EXCEPT ![a] = QueueFinish(@, r, Undefined)]
             /\ UNCHANGED arrivals
        ELSE IF isDisputed(updatedChannel)
        THEN LET task == Task("claimIfProfitable", ClaimChannel, NoClaim,
                              NoAmount, TRUE)
             IN /\ incoming' = [incoming EXCEPT ![a] =
                     QueueAdd(QueueFinish(@, r, updatedChannel), task)]
                /\ arrivals' = [arrivals EXCEPT ![a].incoming = Append(@, task)]
                /\ UNCHANGED watcher
        ELSE /\ incoming' = [incoming EXCEPT ![a] =
                  QueueFinish(@, r, updatedChannel)]
             /\ UNCHANGED <<watcher, arrivals>>
  /\ UNCHANGED <<chainVars, ethereumAddress, unloaded, credited, ilpVars,
                 outgoingVars>>

\* fees prepareTransaction may quote for the claim transaction (wei)
TxFees == {1, MaxClaimValue}

\* a slip that finds every claim unprofitable
isUnprofitableAlways(txFee, spent) == TRUE

\* a slip that lets a fee equal to the claim through
isUnprofitableAboveOnly(txFee, spent) == txFee > spent

\* the profitability gate without an authorize callback
isUnprofitable(txFee, spent) == txFee >= spent

\* claimIfProfitable(requireDisputed) up to sendTransaction()
claimIfProfitable(a, r, txFee) ==
  /\ EventLoopTurn
  /\ r \in incoming[a].running
  /\ r.task.kind = "claimIfProfitable" /\ r.pc = "start"
  /\ LET cachedChannel == incoming[a].state
         updatedChannel == IF cachedChannel = Undefined THEN Undefined
                           ELSE updateChannel(chain, cachedChannel)
         return(state) == incoming' = [incoming EXCEPT ![a] =
                            QueueFinish(@, r, state)]
     IN IF cachedChannel = Undefined THEN return(cachedChannel)
        ELSE IF cachedChannel.signature = NoSignature THEN return(cachedChannel)
        ELSE IF updatedChannel = Undefined THEN return(Undefined)
        ELSE IF r.task.requireDisputed /\ ~isDisputed(updatedChannel)
        THEN return(updatedChannel)
        ELSE IF isUnprofitable(txFee, updatedChannel.spent)
        THEN return(updatedChannel)
        ELSE incoming' = [incoming EXCEPT ![a] =
               QueueStep(@, r, [r EXCEPT !.channel = updatedChannel,
                                         !.base = txFee,
                                         !.pc = "claim"])]
  /\ UNCHANGED <<chainVars, ethereumAddress, unloaded, watcher, credited,
                 ilpVars, outgoingVars, arrivals>>

\* the claim transaction: first confirmation, or a revert / an error
claimTransaction(a, r, outcome) ==
  /\ EventLoopTurn
  /\ r \in incoming[a].running
  /\ r.pc = "claim"
  /\ outcome \in {"reverted", "confirmed"}
  /\ IF outcome = "confirmed"
     THEN /\ chain[r.channel.channelId].open
          /\ chain' = [chain EXCEPT ![r.channel.channelId] = ClosedChannel]
          /\ incoming' = [incoming EXCEPT ![a] =
               QueueStep(@, r, [r EXCEPT !.pc = "claimRefresh"])]
     ELSE /\ incoming' = [incoming EXCEPT ![a] = QueueFail(@, r)]
          /\ UNCHANGED chain
  /\ UNCHANGED <<store, ethereumAddress, unloaded, watcher, credited, ilpVars,
                 outgoingVars, arrivals>>

\* refreshChannel of claimIfProfitable: `visible` is whether the answering
\* node already shows the channel as gone
claimRefresh(a, r, visible) ==
  /\ EventLoopTurn
  /\ r \in incoming[a].running
  /\ r.pc = "claimRefresh"
  /\ IF r.attempts > MaxAttempts
     THEN incoming' = [incoming EXCEPT ![a] = QueueFinish(@, r, r.channel)]
     ELSE IF visible /\ fetchChannel(chain, r.channel.channelId) = Undefined
     THEN incoming' = [incoming EXCEPT ![a] = QueueFinish(@, r, Undefined)]
     ELSE incoming' = [incoming EXCEPT ![a] =
            QueueStep(@, r, [r EXCEPT !.attempts = @ + 1])]
  /\ UNCHANGED <<chainVars, ethereumAddress, unloaded, watcher, credited,
                 ilpVars, outgoingVars, arrivals>>

(***************************************************************************)
(* The incoming side of one account                                        *)
(***************************************************************************)
InAccounts == {"A"}

IncomingReducers(a) ==
  \/ StartIncoming(a)
  \/ \E r \in incoming[a].running : validateClaim(a, r)
  \/ \E r \in incoming[a].running : validateStoreLoaded(a, r)
  \/ \E r \in incoming[a].running, t \in BOOLEAN : validateAccept(a, r, t)
  \/ \E r \in incoming[a].running : channelWatcher(a, r)
  \/ \E r \in incoming[a].running, fee \in TxFees : claimIfProfitable(a, r, fee)
  \/ \E r \in incoming[a].running, o \in TxOutcomes : claimTransaction(a, r, o)
  \/ \E r \in incoming[a].running, v \in BOOLEAN : claimRefresh(a, r, v)

NextIn ==
  \/ \E v \in OpenVariants : PeerOpensChannel("c1", v)
  \/ PeerDeposits("c1")
  \/ PeerStartsDispute("c1")
  \/ PeerSettles("c1")
  \/ \E a \in InAccounts :
       \/ \E claim \in GoodClaims({"c1"}) \cup BadClaims("c1")
                         \cup {Claim("c2", "0xcc", IncomingChannelValue, "0xbb")} :
            HandleClaim(a, claim)
       \/ HandleRequestClose(a)
       \/ \E t \in 1..MaxTimers : WatcherTick(a, t)
       \/ IncomingReducers(a)

SpecIn == Init /\ [][NextIn]_vars


(***************************************************************************)
(* Properties of accepted incoming claims                                  *)
(***************************************************************************)
\* an accepted claim is one whose value and signature are in the cached
\* incoming channel
HoldsClaim(a) ==
  incoming[a].state # Undefined /\ incoming[a].state.signature # NoSignature

\* C3: every accepted incoming claim names the configured contract
\* (case-insensitively), the first claim of an account and every later one.
C3_AcceptedClaimsNameOurContract ==
  \A a \in Accounts : HoldsClaim(a) => isCorrectContract(incoming[a].state)

\* C4: every accepted incoming claim is signed by the on-chain sender of its
\* channel, the channel's on-chain receiver is our address, and while the
\* same channel stays linked the cached `spent` never decreases (each
\* accepted claim is worth at least the one before it).
C4_AcceptedClaimsAreSound ==
  [][\A a \in Accounts :
       /\ HoldsClaim(a)' =>
            LET channel == incoming'[a].state
            IN /\ isValidClaimSignature(SerializedClaim(channel), channel)
               /\ amReceiver(channel)
               /\ chain'[channel.channelId].open =>
                    /\ toLowerCase(chain'[channel.channelId].sender)
                         = toLowerCase(channel.signature.signer)
                    /\ amReceiver(chain'[channel.channelId])
       /\ (/\ incoming[a].state # Undefined
           /\ incoming'[a].state # Undefined
           /\ incoming'[a].state.channelId = incoming[a].state.channelId)
          => incoming'[a].state.spent >= incoming[a].state.spent]_vars

\* a later claim worth more than the cached one is being credited
C4_Witness ==
  \E r \in incoming["A"].running :
    /\ r.pc = "moneyHandler"
    /\ HoldsClaim("A")
    /\ incoming["A"].state.spent > 0
    /\ r.task.claim.value > incoming["A"].state.spent


(***************************************************************************)
(* Two accounts presenting claims on the same incoming channel             *)
(***************************************************************************)
\* a proof of ownership (value 0) and a claim for the whole channel
FirstAndFullClaims ==
  {Claim("c1", "0xcc", v, "0xbb") : v \in {0, IncomingChannelValue}}

NextLink ==
  \/ PeerOpensChannel("c1", "good")
  \/ \E a \in Accounts :
       \/ \E claim \in FirstAndFullClaims : HandleClaim(a, claim)
       \/ \E t \in 1..MaxTimers : WatcherTick(a, t)
       \/ StartIncoming(a)
       \/ \E r \in incoming[a].running : validateClaim(a, r)
       \/ \E r \in incoming[a].running : validateStoreLoaded(a, r)
       \/ \E r \in incoming[a].running, t \in BOOLEAN : validateAccept(a, r, t)
       \/ \E r \in incoming[a].running : channelWatcher(a, r)

SpecLink == Init /\ [][NextLink]_vars

\* the reducer of account b that waits for `store.load` of a key that holds
\* an account name
AwaitsLinkedKey(b, r) ==
  /\ r \in incoming[b].running
  /\ r.pc = "storeLoad"
  /\ isLinked(store[r.task.claim.channelId])

\* C5: a channelId is linked to at most one account. A written store key
\* never changes; an account caches a channel only under a key that names
\* it; and a first claim that finds the key written is rejected: its reducer
\* ends with no cached channel and no balance change.
C5_ChannelLinkedToOneAccount ==
  [][/\ \A id \in InChannelIds : isLinked(store[id]) => store'[id] = store[id]
     /\ \A a \in Accounts :
          incoming'[a].state # Undefined
            => store'[incoming'[a].state.channelId] = a
     /\ \A a, b \in Accounts :
          (/\ a # b
           /\ incoming'[a].state # Undefined
           /\ incoming'[b].state # Undefined)
          => incoming'[a].state.channelId # incoming'[b].state.channelId
     /\ \A b \in Accounts : \A r \in incoming[b].running :
          (AwaitsLinkedKey(b, r) /\ r \notin incoming'[b].running)
          => /\ incoming'[b].state = Undefined
             /\ incoming'[b].running = {}
             /\ receivableBalance'[b] = receivableBalance[b]
             /\ store' = store]_vars

\* account B has passed every check of a new channel and waits for the store
\* while the key of the channel holds A, which caches the channel
C5_Witness ==
  /\ store["c1"] = "A"
  /\ incoming["A"].state # Undefined
  /\ incoming["A"].state.channelId = "c1"
  /\ HoldsClaim("A")
  /\ \E r \in incoming["B"].running :
       AwaitsLinkedKey("B", r) /\ r.task.claim.channelId = "c1"


(***************************************************************************)
(* handleData: ILP PREPARE packets                                         *)
(***************************************************************************)
RECURSIVE SumSeq(_)
SumSeq(s) == IF s = <<>> THEN 0 ELSE Head(s) + SumSeq(Tail(s))

RemoveAt(s, i) == SubSeq(s, 1, i - 1) \o SubSeq(s, i + 1, Len(s))

\* a slip that compares the balance before the debit with the maximum
exceedsMaxBalanceBeforeDebit(balance, amount) == balance > MaxBalance

\* newBalance.isGreaterThan(this.master._maxBalance)
exceedsMaxBalance(balance, amount) == balance + amount > MaxBalance

\* a slip that checks the balance before the size of the packet
admissionBalanceFirst(balance, amount) ==
  IF exceedsMaxBalance(balance, amount) THEN "T04"
  ELSE IF amount > MaxPacketAmount THEN "F08"
  ELSE "forward"

\* the outcome of the two checks of a PREPARE, in the order of the code:
\* AmountTooLargeError (F08), InsufficientLiquidityError (T04), or forward
admission(balance, amount) ==
  IF amount > MaxPacketAmount THEN "F08"
  ELSE IF exceedsMaxBalance(balance, amount) THEN "T04"
  ELSE "forward"

\* a slip that leaves the debit of a rejected PREPARE in place
rollbackNothing(balance, amount) == balance

\* this.account.receivableBalance.minus(amount) on a REJECT
rollback(balance, amount) == balance - amount

PrepareAmounts == 0..(MaxPacketAmount + 1)

\* handleData(message) with an `ilp` subprotocol, up to `await this.dataHandler`
\* or the reply built in the catch block
HandlePrepare(a, amount) ==
  /\ EventLoopTurn
  /\ LET code == admission(receivableBalance[a], amount)
     IN /\ IF code = "forward"
           THEN /\ Len(prepares[a]) < MaxInFlight
                /\ receivableBalance' =
                     [receivableBalance EXCEPT ![a] = @ + amount]
                /\ prepares' = [prepares EXCEPT ![a] = Append(@, amount)]
           ELSE UNCHANGED <<receivableBalance, prepares>>
        /\ lastDecision' = [lastDecision EXCEPT ![a] =
             [type |-> "decision", amount |-> amount, code |-> code,
              before |-> receivableBalance[a],
              after |-> receivableBalance'[a],
              forwarded |-> prepares'[a] # prepares[a]]]
  /\ UNCHANGED <<chainVars, ethereumAddress, unloaded, incomingVars, keptDebit,
                 outgoingVars, arrivals>>

\* what `await this.dataHandler(ilp.data)` and deserializeIlpReply give: a
\* FULFILL, a REJECT, or an exception (caught, answered with a reject)
DataHandlerOutcomes == {"fulfill", "reject", "throw"}

\* the continuation of handleData after `await this.dataHandler` for the
\* i-th suspended PREPARE
DataHandlerReplies(a, i, outcome) ==
  /\ EventLoopTurn
  /\ i \in 1..Len(prepares[a])
  /\ LET amount == prepares[a][i]
     IN /\ prepares' = [prepares EXCEPT ![a] = RemoveAt(@, i)]
        /\ receivableBalance' = [receivableBalance EXCEPT ![a] =
             IF outcome = "reject" THEN rollback(@, amount) ELSE @]
        /\ keptDebit' = [keptDebit EXCEPT ![a] =
             IF outcome = "reject" THEN @ ELSE @ + amount]
        /\ lastDecision' = [lastDecision EXCEPT ![a] =
             [type |-> "reply", amount |-> amount, code |-> outcome,
              before |-> receivableBalance[a],
              after |-> receivableBalance'[a],
              forwarded |-> TRUE]]
  /\ UNCHANGED <<chainVars, ethereumAddress, unloaded, incomingVars, outgoingVars,
                 arrivals>>

NextIlp ==
  \/ PeerOpensChannel("c1", "good")
  \/ \E a \in InAccounts :
       \/ \E amount \in PrepareAmounts : HandlePrepare(a, amount)
       \/ \E i \in 1..MaxInFlight, o \in DataHandlerOutcomes :
            DataHandlerReplies(a, i, o)
       \/ \E claim \in FirstAndFullClaims : HandleClaim(a, claim)
       \/ StartIncoming(a)
       \/ \E r \in incoming[a].running : validateClaim(a, r)
       \/ \E r \in incoming[a].running : validateStoreLoaded(a, r)
       \/ \E r \in incoming[a].running, t \in BOOLEAN : validateAccept(a, r, t)

SpecIlp == Init /\ [][NextIlp]_vars

\* C6: the receivable balance never exceeds the maximum balance, whatever
\* PREPAREs are suspended at the data handler and whatever claims are
\* validated in between.
C6_ReceivableWithinMaxBalance ==
  \A a \in Accounts : receivableBalance[a] <= MaxBalance

\* the balance sits at the maximum with several PREPAREs suspended and a
\* claim credited
C6_Witness ==
  /\ receivableBalance["A"] = MaxBalance
  /\ Len(prepares["A"]) >= 2
  /\ credited["A"] > 0
  /\ lastDecision["A"].type = "decision"
  /\ lastDecision["A"].code = "forward"

\* C7: a PREPARE that was admitted and answered with a REJECT contributes
\* nothing to the receivable balance: the reply takes off exactly the amount
\* the admission added, and the balance is always the sum of the PREPAREs
\* still suspended, plus those not rejected, minus the claims credited.
C7_RejectRoundTripIsNetZero ==
  \A a \in Accounts :
    /\ receivableBalance[a] = SumSeq(prepares[a]) + keptDebit[a] - credited[a]
    /\ (lastDecision[a].type = "reply" /\ lastDecision[a].code = "reject")
         => lastDecision[a].after = lastDecision[a].before - lastDecision[a].amount

\* a REJECT was handled while another PREPARE is suspended and a claim was
\* credited
C7_Witness ==
  /\ lastDecision["A"].type = "reply"
  /\ lastDecision["A"].code = "reject"
  /\ lastDecision["A"].amount > 0
  /\ Len(prepares["A"]) >= 1
  /\ credited["A"] > 0
  /\ keptDebit["A"] > 0

\* C8: a PREPARE is rejected for its size (F08) exactly when its amount is
\* above maxPacketAmount; otherwise it is rejected for liquidity (T04) exactly
\* when balance + amount is above maxBalance; the size check comes first; a
\* rejected PREPARE is not forwarded and leaves the balance unchanged, and an
\* admitted one is forwarded with the balance raised by its amount.
C8_AdmissionBoundaries ==
  \A a \in Accounts :
    LET d == lastDecision[a]
    IN d.type = "decision" =>
         /\ (d.code = "F08") <=> (d.amount > MaxPacketAmount)
         /\ (d.code = "T04") <=> (/\ d.amount <= MaxPacketAmount
                                  /\ d.before + d.amount > MaxBalance)
         /\ (d.code = "forward") <=> (/\ d.amount <= MaxPacketAmount
                                      /\ d.before + d.amount <= MaxBalance)
         /\ d.code \in {"F08", "T04"} => (~d.forwarded /\ d.after = d.before)
         /\ d.code = "forward" => (d.forwarded /\ d.after = d.before + d.amount)

\* a PREPARE one above maxPacketAmount that would also exceed maxBalance is
\* answered F08
C8_Witness ==
  /\ lastDecision["A"].type = "decision"
  /\ lastDecision["A"].amount = MaxPacketAmount + 1
  /\ lastDecision["A"].before + lastDecision["A"].amount > MaxBalance
  /\ lastDecision["A"].before <= MaxBalance
  /\ lastDecision["A"].code = "F08"


(***************************************************************************)
(* The two queues of one account                                           *)
(***************************************************************************)
NextQueue ==
  \/ PeerOpensChannel("c1", "good")
  \/ PeerStartsDispute("c1")
  \/ \E a \in InAccounts :
       \/ \E claim \in FirstAndFullClaims : HandleClaim(a, claim)
       \/ HandleRequestClose(a)
       \/ \E t \in 1..MaxTimers : WatcherTick(a, t)
       \/ IncomingReducers(a)
  \/ \E a \in OutAccounts :
       \/ SendMoneyCall(a, NoAmount)
       \/ FundOutgoingChannelCall(a)
       \/ StartOutgoing(a)
       \/ \E r \in outgoing[a].running : sendMoney(a, r)
       \/ \E r \in outgoing[a].running : fundRefresh(a, r)
       \/ \E r \in outgoing[a].running : fundFetchEthereumAddress(a, r, "none")

SpecQueue == Init /\ [][NextQueue]_vars

\* a reducer of q that has passed its first await
Suspended(q) == \E r \in q.running : r.pc # "start"

\* q2 is q one step later, with no reducer of q replaced by another one
SingleWriter(q, q2) ==
  /\ Cardinality(q2.running) <= 1
  /\ q2.state # q.state => (q.running # {} /\ q2.running = {})
  /\ Suspended(q) => /\ Len(q2.queue) >= Len(q.queue)
                     /\ \A r2 \in q2.running : \E r \in q.running :
                          r2.task = r.task

\* C9: in each queue of an account at most one reducer is in flight; while
\* one is suspended at an await no pending reducer is started; and the state
\* cell of the queue changes only when the reducer in flight ends.
C9_OneReducerPerQueue ==
  [][\A a \in Accounts :
       /\ SingleWriter(incoming[a], incoming'[a])
       /\ SingleWriter(outgoing[a], outgoing'[a])]_vars

\* both queues of A hold a reducer suspended at an await and pending reducers
C9_Witness ==
  /\ Suspended(incoming["A"])
  /\ incoming["A"].queue # <<>>
  /\ Suspended(outgoing["A"])
  /\ outgoing["A"].queue # <<>>

\* the pending reducer that is due: the earliest enqueued among those of the
\* highest priority (pending lists the pending reducers in enqueue order)
Due(pending) ==
  LET top == {i \in 1..Len(pending) :
                \A j \in 1..Len(pending) :
                  pending[j].priority <= pending[i].priority}
  IN pending[CHOOSE i \in top : \A j \in top : i <= j]

\* q2 is q one step later and `pending` the reducers pending in q
RunsInOrder(q, q2, pending) ==
  /\ (q.running = {} /\ q2.running # {})
       => q2.running = {Activation(Due(pending))}
  /\ q.running # {}
       => \A r2 \in q2.running : \E r \in q.running : r2.task = r.task

\* C10: the reducer a queue starts is the earliest enqueued of the pending
\* reducers of the highest priority, and a reducer in flight is not replaced
\* by one enqueued later, whatever its priority.
C10_PriorityThenFifo ==
  [][\A a \in Accounts :
       /\ RunsInOrder(incoming[a], incoming'[a], arrivals[a].incoming)
       /\ RunsInOrder(outgoing[a], outgoing'[a], arrivals[a].outgoing)]_vars

\* a reducer enqueued later runs while one of a lower priority enqueued
\* before it is still pending, and two of the same priority wait behind it
C10_Witness ==
  /\ \E r \in incoming["A"].running :
       /\ arrivals["A"].incoming # <<>>
       /\ Head(arrivals["A"].incoming).priority < r.task.priority
  /\ Len(incoming["A"].queue) >= 2
  /\ \E r \in outgoing["A"].running :
       /\ Len(outgoing["A"].queue) >= 2
       /\ outgoing["A"].queue[1] # outgoing["A"].queue[2]


(***************************************************************************)
(* Failing reducers                                                        *)
(***************************************************************************)
\* q2 is q one step later, and in that step the reducer in flight threw
ReducerFailed(q, q2) == q.running # {} /\ q2.failed

\* after the failure the cell, the pending reducers and the queue's
\* readiness are as if the reducer had not run
KeptOnFailure(q, q2) ==
  ReducerFailed(q, q2) =>
    /\ q2.state = q.state
    /\ q2.queue = q.queue
    /\ q2.running = {}
    /\ q2.queue # <<>> => QueueCanRun(q2)

\* C11: when a reducer fails (the open, deposit or claim transaction is not
\* authorized, reverts or errors, or the money handler throws) the state
\* cell keeps the value it had before, the pending reducers stay queued and
\* the queue takes the next one: the failure shows in the handle only.
C11_FailureKeepsState ==
  [][\A a \in Accounts :
       /\ KeptOnFailure(outgoing[a], outgoing'[a])
       /\ KeptOnFailure(incoming[a], incoming'[a])]_vars

\* a deposit failed on a cached channel that has signed a claim, and a
\* reducer enqueued meanwhile is about to run on that channel
C11_Witness ==
  /\ outgoing["A"].failed
  /\ outgoing["A"].state # Undefined
  /\ outgoing["A"].state.spent > 0
  /\ outgoing["A"].queue # <<>>


(***************************************************************************)
(* The linked Ethereum address                                             *)
(***************************************************************************)
\* C12: once the Ethereum address of an account is set, no `info` message
\* and no answer to fetchEthereumAddress changes it: a different address is
\* ignored and the same address in another case leaves the stored string.
C12_AddressSetOnce ==
  [][\A a \in Accounts :
       ethereumAddress[a] # NoAddress
         => ethereumAddress'[a] = ethereumAddress[a]]_vars

\* the address was linked by an `info` message while fundOutgoingChannel
\* waits for the peer's answer to its own `info` request
C12_Witness ==
  /\ ethereumAddress["A"] = "0xbb"
  /\ \E r \in outgoing["A"].running : r.pc = "fetchEthereumAddress"


(***************************************************************************)
(* Claims that credit nothing                                              *)
(***************************************************************************)
\* r validates a claim for an account with no cached channel
FirstClaim(a, r) ==
  r.task.kind = "validateClaim" /\ incoming[a].state = Undefined

\* r has reached `await this.moneyHandler(amount)`
InvokesMoneyHandler(r) == r.pc = "moneyHandler"

\* C13: a first claim of value 0 is accepted as a proof of ownership without
\* the money handler being invoked, and a first claim of negative value gets
\* past no check (nothing is cached, the store key is not written).
C13_ZeroValueFirstClaim ==
  \A a \in Accounts : \A r \in incoming[a].running :
    FirstClaim(a, r) =>
      /\ r.task.claim.value = 0 => ~InvokesMoneyHandler(r)
      /\ r.task.claim.value < 0 => r.pc = "start"

\* C14: when the increment of an accepted claim is positive in wei and floors
\* to 0 gwei, the money handler is not invoked.
C14_SubGweiIncrementSkipsMoneyHandler ==
  \A a \in Accounts : \A r \in incoming[a].running :
    (/\ r.task.kind = "validateClaim"
     /\ InvokesMoneyHandler(r)
     /\ claimIncrement(r.task.claim, r.channel, incoming[a].state) > 0)
    => r.base > 0

\* C15: a claim on the linked channel whose value is not above the accepted
\* one (a replay or a regression) does not invoke the money handler.
C15_ReplayDoesNotInvokeMoneyHandler ==
  \A a \in Accounts : \A r \in incoming[a].running :
    (/\ r.task.kind = "validateClaim"
     /\ HoldsClaim(a)
     /\ r.task.claim.channelId = incoming[a].state.channelId
     /\ r.task.claim.value <= incoming[a].state.spent)
    => ~InvokesMoneyHandler(r)


(***************************************************************************)
(* The gates of claimIfProfitable                                          *)
(***************************************************************************)
\* r2 stands at sendTransaction() of the claim, which it had not reached
\* one step before
SubmitsClaim(a, r2) ==
  /\ r2 \in incoming'[a].running
  /\ r2.pc = "claim"
  /\ r2 \notin incoming[a].running

\* a claimIfProfitable reducer returns in this step, before sendTransaction()
ReturnsBeforeClaim(a) ==
  /\ \E r \in incoming[a].running :
       r.task.kind = "claimIfProfitable" /\ r.pc = "start"
  /\ incoming'[a].running = {}
  /\ ~incoming'[a].failed

\* C16: a claim transaction is submitted only for a cached channel with a
\* signature, which is disputed if requireDisputed was asked for, and whose
\* fee is below the cached `spent`; and when claimIfProfitable returns
\* without submitting, a cached channel that still exists on chain stays
\* cached with the same `spent` and signature.
C16_ClaimGates ==
  [][\A a \in Accounts :
       /\ \A r2 \in incoming'[a].running :
            SubmitsClaim(a, r2) =>
              /\ HoldsClaim(a)
              /\ r2.task.requireDisputed
                   => isDisputed(updateChannel(chain, incoming[a].state))
              /\ r2.base < incoming[a].state.spent
       /\ (/\ ReturnsBeforeClaim(a)
           /\ incoming[a].state # Undefined
           /\ updateChannel(chain, incoming[a].state) # Undefined)
          => /\ incoming'[a].state # Undefined
             /\ incoming'[a].state.spent = incoming[a].state.spent
             /\ incoming'[a].state.signature = incoming[a].state.signature
             /\ chain' = chain]_vars

\* claimIfProfitable() is about to run on a channel whose accepted claim is
\* worth no more than the lowest fee
C16_Witness ==
  /\ HoldsClaim("A")
  /\ incoming["A"].state.spent > 0
  /\ \A fee \in TxFees : isUnprofitable(fee, incoming["A"].state.spent)
  /\ chain[incoming["A"].state.channelId].open
  /\ \E r \in incoming["A"].running :
       /\ r.task.kind = "claimIfProfitable"
       /\ r.pc = "start"
       /\ ~r.task.requireDisputed


(***************************************************************************)
(* Dispute detection: the watcher and the claim, with calls that succeed   *)
(***************************************************************************)
\* the fee quoted for the claim transaction in this scenario (wei)
QuotedFee == CHOOSE fee \in TxFees : \A other \in TxFees : fee <= other

\* the steps of the reducers of the incoming queue when the money handler
\* resolves and the claim transaction is confirmed
DisputeReducers(a) ==
  \/ StartIncoming(a)
  \/ \E r \in incoming[a].running : validateClaim(a, r)
  \/ \E r \in incoming[a].running : validateStoreLoaded(a, r)
  \/ \E r \in incoming[a].running : validateAccept(a, r, FALSE)
  \/ \E r \in incoming[a].running : channelWatcher(a, r)
  \/ \E r \in incoming[a].running : claimIfProfitable(a, r, QuotedFee)
  \/ \E r \in incoming[a].running : claimTransaction(a, r, "confirmed")
  \/ \E r \in incoming[a].running, v \in BOOLEAN : claimRefresh(a, r, v)

Ticks(a) == \E t \in 1..MaxTimers : WatcherTick(a, t)

NextDispute ==
  \/ PeerOpensChannel("c1", "good")
  \/ PeerStartsDispute("c1")
  \/ \E a \in InAccounts :
       \/ \E claim \in FirstAndFullClaims : HandleClaim(a, claim)
       \/ Ticks(a)
       \/ DisputeReducers(a)

\* the interval timer keeps firing, and a reducer that can take its next
\* step takes it
SpecDispute ==
  /\ Init
  /\ [][NextDispute]_vars
  /\ \A a \in InAccounts : SF_vars(Ticks(a)) /\ WF_vars(DisputeReducers(a))

\* A holds a claim worth more than the fee on a channel the chain shows as
\* disputed
DisputedAndProfitable(a) ==
  /\ HoldsClaim(a)
  /\ incoming[a].state.spent > QuotedFee
  /\ chain[incoming[a].state.channelId].open
  /\ isDisputed(updateChannel(chain, incoming[a].state))

\* the claim transaction of claimIfProfitable(true) has its confirmation
ClaimConfirmed(a) ==
  \E r \in incoming[a].running :
    /\ r.task.kind = "claimIfProfitable"
    /\ r.task.requireDisputed
    /\ r.pc = "claimRefresh"

\* C17: when an account holds a claim worth more than the fee and the chain
\* shows the channel as disputed, a claimIfProfitable(true) enqueued by the
\* watcher gets its claim transaction confirmed, and afterwards the incoming
\* state cell becomes absent.
C17_DisputeLeadsToClaim ==
  \A a \in InAccounts :
    /\ DisputedAndProfitable(a) ~> ClaimConfirmed(a)
    /\ DisputedAndProfitable(a) ~> (incoming[a].state = Undefined)

\* the channel was linked to A, claimed on chain, and A's cell is absent
C17_Witness ==
  /\ store["c1"] = "A"
  /\ chain["c1"].closed
  /\ incoming["A"].state = Undefined
  /\ incoming["A"].running = {}

(***************************************************************************)
(* The sign of the balances                                                *)
(***************************************************************************)
\* C18: the receivable balance is never negative, whatever PREPAREs are
\* admitted or rejected and whatever claims are accepted.
C18_ReceivableNonNegative ==
  \A a \in Accounts : receivableBalance[a] >= 0


(***************************************************************************)
(* The backlog of sendMoney                                                *)
(***************************************************************************)
\* amountToSend = amount || BigNumber.max(0, this.account.payableBalance)
amountToSend(a, r) ==
  IF r.task.amount # NoAmount THEN r.task.amount
  ELSE Max(0, payableBalance[a])

\* the budget of the reducer r, in gwei: payoutAmount.plus(amountToSend)
settlementBudgetGwei(a, r) == payoutAmount[a] + amountToSend(a, r)

\* the reducer r of sendMoney ends in this step past both early returns, that
\* is, it signs and sends a claim
SignsClaim(a, r) ==
  /\ r \in outgoing[a].running
  /\ r.task.kind = "sendMoney"
  /\ r \notin outgoing'[a].running
  /\ outgoing[a].state # Undefined
  /\ isPositive(remainingInChannel(outgoing[a].state))
  /\ isPositive(GweiToWei(settlementBudgetGwei(a, r)))

\* the gwei the claim signed by r adds: claimIncrementGwei
signedIncrementGwei(a, r) ==
  WeiToGweiFloor(sendMoneyIncrement(outgoing[a].state,
                                    GweiToWei(settlementBudgetGwei(a, r))))

\* C19: payoutAmount is never negative, and a sendMoney reducer with budget b
\* that signs an increment of i < b gwei leaves payoutAmount = b - i.
C19_BacklogCarriedForward ==
  /\ [](\A a \in Accounts : payoutAmount[a] >= 0)
  /\ [][\A a \in Accounts : \A r \in outgoing[a].running :
          (SignsClaim(a, r)
           /\ signedIncrementGwei(a, r) < settlementBudgetGwei(a, r))
          => payoutAmount'[a] =
               settlementBudgetGwei(a, r) - signedIncrementGwei(a, r)]_vars


\* the remaining capacity of the cached channel covers what A owes the peer
CoversDebt(a) ==
  /\ outgoing[a].state # Undefined
  /\ payableBalance[a] >= 0
  /\ remainingInChannel(outgoing[a].state) >= GweiToWei(payableBalance[a])

\* C20: a sendMoney() reducer without an amount that runs while the channel's
\* remaining capacity covers the debt leaves payableBalance = 0, whatever
\* payoutAmount earlier attempts left behind.
C20_SettlesToZero ==
  [][\A a \in Accounts : \A r \in outgoing[a].running :
       (SignsClaim(a, r) /\ r.task.amount = NoAmount /\ CoversDebt(a))
       => payableBalance'[a] = 0]_vars


(***************************************************************************)
(* The gwei amounts handed to the money handler                            *)
(***************************************************************************)
\* the value (wei) of the claim the account holds; 0 when it holds none
priorSpent(a) ==
  IF incoming[a].state = Undefined THEN 0 ELSE incoming[a].state.spent

\* what the money handler must be given for the total it has received to be
\* the whole gwei of the cumulative claim value
cumulativeCredit(a, claim) ==
  WeiToGweiFloor(claim.value) - WeiToGweiFloor(priorSpent(a))

\* C21: the amount a claim within the channel's value hands to the money
\* handler is the whole gwei of its cumulative value less the whole gwei of the
\* claim before it, so that a claim of a whole gwei that follows a claim below
\* one gwei hands over that gwei.
C21_CreditTracksCumulativeValue ==
  \A a \in Accounts : \A r \in incoming[a].running :
    (InvokesMoneyHandler(r) /\ r.task.claim.value <= r.channel.value)
    => r.base = cumulativeCredit(a, r.task.claim)


(***************************************************************************)
(* The order of the reducers of the incoming queue                         *)
(***************************************************************************)
\* the reducers of this kind pending in q
PendingOfKind(q, kind) == {i \in 1..Len(q.queue) : q.queue[i].kind = kind}

\* q2 is q one step later, and the step started a reducer of this kind
StartsKind(q, q2, kind) ==
  /\ q.running = {}
  /\ \E r2 \in q2.running : r2.task.kind = kind

\* C22: the incoming queue starts a validateClaim reducer only while no
\* claimIfProfitable reducer is pending, and a channel-watcher reducer only
\* while neither a claimIfProfitable nor a validateClaim reducer is pending.
C22_ClaimThenValidateThenWatch ==
  [][\A a \in Accounts :
       /\ StartsKind(incoming[a], incoming'[a], "validateClaim")
            => PendingOfKind(incoming[a], "claimIfProfitable") = {}
       /\ StartsKind(incoming[a], incoming'[a], "channelWatcher")
            => /\ PendingOfKind(incoming[a], "claimIfProfitable") = {}
               /\ PendingOfKind(incoming[a], "validateClaim") = {}]_vars


(***************************************************************************)
(* The watcher timer across disconnect()                                   *)
(***************************************************************************)
\* disconnect(): clearInterval(this.watcher); this.watcher keeps the handle
disconnect(a) ==
  /\ EventLoopTurn
  /\ watcher' = [watcher EXCEPT ![a].active = @ \ {watcher[a].timer}]
  /\ UNCHANGED <<chainVars, ethereumAddress, unloaded, incoming, credited, ilpVars,
                 outgoingVars, arrivals>>

NextWatch ==
  \/ PeerOpensChannel("c1", "good")
  \/ \E a \in InAccounts :
       \/ \E claim \in FirstAndFullClaims : HandleClaim(a, claim)
       \/ Ticks(a)
       \/ disconnect(a)
       \/ StartIncoming(a)
       \/ \E r \in incoming[a].running : validateClaim(a, r)
       \/ \E r \in incoming[a].running : validateStoreLoaded(a, r)
       \/ \E r \in incoming[a].running, t \in BOOLEAN : validateAccept(a, r, t)
       \/ \E r \in incoming[a].running : channelWatcher(a, r)

SpecWatch == Init /\ [][NextWatch]_vars

\* the reducer r of validateClaim ends in this step by returning the claim as
\* the cached channel
AcceptsClaim(a, r) ==
  /\ r \in incoming[a].running
  /\ r.pc \in {"moneyHandler", "accept"}
  /\ incoming'[a].running = {}
  /\ ~incoming'[a].failed

\* C23: when a validateClaim reducer ends by accepting a claim, an interval
\* timer of the watcher is active, whatever stopped the watcher before.
C23_WatcherRunsAfterAccept ==
  [][\A a \in Accounts : \A r \in incoming[a].running :
       AcceptsClaim(a, r) => watcher'[a].active # {}]_vars


(***************************************************************************)
(* The ownership check of a first claim                                    *)
(***************************************************************************)
\* the reducer r of account a takes its step after `await store.load`
ChecksOwnership(a, r) ==
  /\ r \in incoming[a].running
  /\ r.pc = "storeLoad"
  /\ r \notin incoming'[a].running

\* C24: the ownership check of a first claim rejects exactly when the key of
\* the channel holds the name of another account; when it holds the name of
\* the validating account itself, validation goes on.
C24_OwnKeyIsNotRejected ==
  [][\A a \in Accounts : \A r \in incoming[a].running :
       ChecksOwnership(a, r)
       => (incoming'[a].running = {}
             <=> store[r.task.claim.channelId] \notin {"", a})]_vars


(***************************************************************************)
(* The retries of validateClaim                                            *)
(***************************************************************************)
\* the validateClaim reducer r takes a step from the top of the function
Validates(a, r) ==
  /\ r \in incoming[a].running
  /\ r.task.kind = "validateClaim"
  /\ r.pc = "start"
  /\ r \notin incoming'[a].running

\* the step of r is a chain lookup that is followed by delay(500) and another
\* call with attempts + 1; the lookup is number r.attempts + 1 for this claim
Retries(a, r) ==
  /\ Validates(a, r)
  /\ \E r2 \in incoming'[a].running :
       r2.pc = "start" /\ r2.attempts = r.attempts + 1

\* r gives up: it ends with the cached channel as it was and nothing else
\* changed
GivesUp(a) ==
  /\ incoming'[a].running = {}
  /\ incoming'[a].state = incoming[a].state
  /\ ~incoming'[a].failed
  /\ receivableBalance' = receivableBalance
  /\ credited' = credited
  /\ store' = store

\* C25: no claim is looked up on chain more than 20 times, whether the
\* channel is not yet visible or the deposit not yet reflected; the call that
\* finds the attempts used up returns the cached channel unchanged, with no
\* balance change, no money-handler call and no store write.
C25_AtMostTwentyLookups ==
  [][\A a \in Accounts : \A r \in incoming[a].running :
       /\ Retries(a, r) => r.attempts + 1 <= MaxAttempts
       /\ (Validates(a, r) /\ exhausted(r.attempts)) => GivesUp(a)]_vars


(***************************************************************************)
(* unload() and the writes of the account to the store                     *)
(***************************************************************************)
\* unload(): the watcher's timer is cleared and the listeners of both queues
\* are removed; the account object is dropped from master._accounts, so no
\* message of the peer is handled by it afterwards
unload(a) ==
  /\ EventLoopTurn
  /\ ~unloaded[a]
  /\ unloaded' = [unloaded EXCEPT ![a] = TRUE]
  /\ watcher' = [watcher EXCEPT ![a].active = @ \ {watcher[a].timer}]
  /\ UNCHANGED <<chainVars, ethereumAddress, incoming, credited, ilpVars,
                 outgoingVars, arrivals>>

NextUnload ==
  \/ PeerOpensChannel("c1", "good")
  \/ \E a \in InAccounts :
       \/ unload(a)
       \/ ~unloaded[a] /\ \E claim \in FirstAndFullClaims : HandleClaim(a, claim)
       \/ Ticks(a)
       \/ StartIncoming(a)
       \/ \E r \in incoming[a].running : validateClaim(a, r)
       \/ \E r \in incoming[a].running : validateStoreLoaded(a, r)
       \/ \E r \in incoming[a].running, t \in BOOLEAN : validateAccept(a, r, t)
       \/ \E r \in incoming[a].running : channelWatcher(a, r)

SpecUnload == Init /\ [][NextUnload]_vars

\* q2 is q one step later, and the step ended a reducer with a result: the
\* queue emits `data`
EmitsData(q, q2) == q.running # {} /\ q2.running = {} /\ ~q2.failed

\* persistAccountData() is called by the `data` listeners the constructor
\* attached, until unload() removes them
persistsOnData(a) ==
  /\ ~unloaded[a]
  /\ EmitsData(incoming[a], incoming'[a]) \/ EmitsData(outgoing[a], outgoing'[a])

\* persistAccountData() is called by the set handler of the Proxy: the step
\* assigns a property of this.account (receivableBalance in validateClaim)
persistsOnSet(a) ==
  \E r \in incoming[a].running : \E r2 \in incoming'[a].running :
    r.pc # "moneyHandler" /\ r2.pc = "moneyHandler"

\* C26: after unload(), no step of a reducer writes the account to the store,
\* neither through a `data` event of a queue nor through an assignment to a
\* balance.
C26_NoPersistenceAfterUnload ==
  [][\A a \in Accounts :
       unloaded[a] => ~(persistsOnData(a) \/ persistsOnSet(a))]_vars


(***************************************************************************)
(* handlePrepareResponse                                                   *)
(***************************************************************************)
\* the sendMoney() reducers (no amount) pending in q
Settlements(q) ==
  Cardinality({i \in 1..Len(q.queue) :
                 q.queue[i].kind = "sendMoney" /\ q.queue[i].amount = NoAmount})

\* handlePrepareResponse(prepare, reply), with a record of what the call was
\* given and of what it left behind: the balance before and after it, and in
\* `forwarded` the number of reducers it added to the outgoing queue
HandlePrepareResponse(a, amount, reply) ==
  /\ prepareResponse(a, amount, reply)
  /\ lastDecision' = [lastDecision EXCEPT ![a] =
       [type |-> "response", amount |-> amount,
        code |-> reply,
        before |-> payableBalance[a],
        after |-> payableBalance'[a],
        forwarded |-> IF Len(outgoing'[a].queue) =
                           Len(outgoing[a].queue)
                           + Settlements(outgoing'[a]) - Settlements(outgoing[a])
                      THEN Len(outgoing'[a].queue) - Len(outgoing[a].queue)
                      ELSE -1]]

NextSettle ==
  \E a \in OutAccounts :
    \/ HandleInfo(a, "0xBB")
    \/ FundOutgoingChannelCall(a)
    \/ StartOutgoing(a)
    \/ \E r \in outgoing[a].running : sendMoney(a, r)
    \/ \E r \in outgoing[a].running : fundRefresh(a, r)
    \/ \E r \in outgoing[a].running : fundFetchEthereumAddress(a, r, "none")
    \/ \E r \in outgoing[a].running : fundOpen(a, r, "confirmed")
    \/ \E r \in outgoing[a].running : fundOpenRefresh(a, r, TRUE)
    \/ \E r \in outgoing[a].running : fundDeposit(a, r, "confirmed")
    \/ \E r \in outgoing[a].running : fundDepositRefresh(a, r, TRUE)
    \/ \E amount \in 1..MaxPayable, reply \in ReplyKinds :
         HandlePrepareResponse(a, amount, reply)

SpecSettle == Init /\ [][NextSettle]_vars

\* C27: handlePrepareResponse adds exactly prepare.amount to payableBalance
\* and triggers one sendMoney() on a FULFILL; triggers one sendMoney() with no
\* balance change on a T04 REJECT; changes no balance and triggers no
\* settlement on any other REJECT.
C27_PrepareResponse ==
  \A a \in Accounts :
    LET d == lastDecision[a]
    IN d.type = "response" =>
         /\ d.code = "fulfill" =>
              (d.after = d.before + d.amount /\ d.forwarded = 1)
         /\ d.code = "T04" => (d.after = d.before /\ d.forwarded = 1)
         /\ d.code \notin {"fulfill", "T04"} =>
              (d.after = d.before /\ d.forwarded = 0)
         /\ receivableBalance[a] = 0

\* a T04 was handled after a FULFILL: the balance holds the amount of the
\* FULFILL and both sendMoney() are pending
C27_Witness ==
  /\ lastDecision["A"].type = "response"
  /\ lastDecision["A"].code = "T04"
  /\ lastDecision["A"].before > 0
  /\ Settlements(outgoing["A"]) = 2


(***************************************************************************)
(* What a sendMoney reduction sends                                        *)
(***************************************************************************)
\* the sendMoney reducer r ends in this step
EndsSendMoney(a, r) ==
  /\ r \in outgoing[a].running
  /\ r.task.kind = "sendMoney"
  /\ r \notin outgoing'[a].running

\* the wei the claim of r is to add: min(value - spent, budget)
dueIncrement(a, r) ==
  Min(remainingInChannel(outgoing[a].state),
      GweiToWei(settlementBudgetGwei(a, r)))

\* C28: a sendMoney reduction sends no claim and leaves the cached channel
\* as it is when there is no channel, when value - spent <= 0 or when the
\* budget is <= 0; otherwise it sends the claim for spent + min(value - spent,
\* budget) and takes the whole gwei of the increment off payableBalance.
C28_SendMoneyOutcome ==
  [][\A a \in Accounts : \A r \in outgoing[a].running :
       EndsSendMoney(a, r) =>
         IF \/ outgoing[a].state = Undefined
            \/ remainingInChannel(outgoing[a].state) <= 0
            \/ settlementBudgetGwei(a, r) <= 0
         THEN /\ sentClaims'[a] = sentClaims[a]
              /\ outgoing'[a].state = outgoing[a].state
              /\ payableBalance'[a] = payableBalance[a]
         ELSE /\ sentClaims'[a] # NoClaim
              /\ sentClaims'[a].value =
                   outgoing[a].state.spent + dueIncrement(a, r)
              /\ outgoing'[a].state.spent = sentClaims'[a].value
              /\ payableBalance'[a] =
                   payableBalance[a] - WeiToGweiFloor(dueIncrement(a, r))]_vars


\* C29: a sendMoney reduction that signs and sends a claim leaves the spent
\* of the outgoing channel strictly greater than it was, so that the claim
\* supersedes every earlier one.
C29_SpentStrictlyIncreases ==
  [][\A a \in Accounts : \A r \in outgoing[a].running :
       SignsClaim(a, r)
       => /\ outgoing'[a].state # Undefined
          /\ outgoing'[a].state.spent > outgoing[a].state.spent]_vars


(***************************************************************************)
(* Deposits of different sizes, answered by nodes that may lag             *)
(***************************************************************************)
\* the largest total, in gwei, the account puts into its channels
MaxDeposited == 4

\* the sizes of deposit fundOutgoingChannel(value) is called with
DepositAmounts == {1, 2}

RECURSIVE ValueOnChain(_)
\* the wei held by the given channels
ValueOnChain(ids) ==
  IF ids = {} THEN 0
  ELSE LET id == CHOOSE i \in ids : TRUE
       IN (IF chain[id].open THEN chain[id].value ELSE 0)
            + ValueOnChain(ids \ {id})

\* what a node may answer about a channel the account last saw as
\* `known`: the registry as it is, or as it was before one of the deposits
\* the node has not seen yet, never older than what the account saw
NodeViews(known) ==
  IF known # Undefined /\ chain[known.channelId].open
  THEN {chain} \cup {[chain EXCEPT ![known.channelId].value = v] :
                       v \in {w \in chain[known.channelId].was :
                                w >= known.value}}
  ELSE {chain}

\* fundOutgoingChannel(value), called while no other funding is queued
FundOutgoingChannelWith(a, value) ==
  /\ EventLoopTurn
  /\ PendingOrRunning(outgoing[a], "fundOutgoingChannel") = 0
  /\ Cardinality(FreshChannelIds) > 0
  /\ ValueOnChain(OutChannelIds) + GweiToWei(value) <= GweiToWei(MaxDeposited)
  /\ AddOutgoing(a, Task("fundOutgoingChannel", 0, NoClaim, value, FALSE))
  /\ UNCHANGED <<chainVars, ethereumAddress, unloaded, incomingVars, ilpVars,
                 payableBalance, payoutAmount, sentClaims>>

NextDeposit ==
  \E a \in OutAccounts :
    \/ HandleInfo(a, "0xBB")
    \/ \E value \in DepositAmounts : FundOutgoingChannelWith(a, value)
    \/ StartOutgoing(a)
    \/ \E r \in outgoing[a].running :
         \E view \in NodeViews(outgoing[a].state) :
           fundRefreshSeeing(a, r, view)
    \/ \E r \in outgoing[a].running : fundFetchEthereumAddress(a, r, "0xBB")
    \/ \E r \in outgoing[a].running : fundOpen(a, r, "confirmed")
    \/ \E r \in outgoing[a].running : fundOpenRefresh(a, r, TRUE)
    \/ \E r \in outgoing[a].running : fundDeposit(a, r, "confirmed")
    \/ \E r \in outgoing[a].running :
         r.pc = "depositRefresh"
         /\ \E view \in NodeViews(r.channel) :
              fundDepositRefreshSeeing(a, r, view)

SpecDeposit == Init /\ [][NextDeposit]_vars

\* the step on which the deposit's refresh loop ends by installing what
\* the node answered, not by running out of attempts
InstallsRefreshed(a, r) ==
  /\ r \in outgoing[a].running
  /\ r.pc = "depositRefresh"
  /\ ~exhausted(r.attempts)
  /\ r \notin outgoing'[a].running
  /\ \A q \in outgoing'[a].running : q.pc # "depositRefresh"

\* C30: when a deposit to the live channel ends by installing a refreshed
\* channel, the installed channel's value is at least the value the channel
\* had before the deposit plus the deposit, both in wei.
C30_DepositIsReflected ==
  [][\A a \in OutAccounts : \A r \in outgoing[a].running :
       InstallsRefreshed(a, r) =>
         /\ outgoing'[a].state # Undefined
         /\ outgoing'[a].state.value
              >= r.channel.value + GweiToWei(r.task.amount)]_vars


(***************************************************************************)
(* The reply to a PREPARE and the debit it leaves                          *)
(***************************************************************************)
\* C31: whenever the `ilp` response returned for a PREPARE is a REJECT (the
\* data handler's own REJECT, the F08 or T04 of the two checks, or the one
\* built in the catch block after the data handler or the decoding of its
\* reply threw), the balance after the response is the balance from before
\* the PREPARE was debited.
C31_RejectLeavesNoDebit ==
  \A a \in Accounts :
    LET d == lastDecision[a]
    IN /\ (d.type = "decision" /\ d.code \in {"F08", "T04"})
            => d.after = d.before
       /\ (d.type = "reply" /\ d.code \in {"reject", "throw"})
            => d.after = d.before - d.amount


(***************************************************************************)
(* A money handler that fails                                              *)
(***************************************************************************)
\* C32: when `await this.moneyHandler(amount)` rejects, the reduction leaves
\* nothing behind: the balance is back at what it was before the debit of
\* the claim (r.base), and the key of the channel, written by this reduction
\* for a first claim, is not in the store, so that the claim sent again is
\* validated as if for the first time.
C32_FailedHandlerLeavesNothing ==
  [][\A a \in Accounts : \A r \in incoming[a].running :
       (/\ r.pc = "moneyHandler"
        /\ r \notin incoming'[a].running
        /\ incoming'[a].failed)
       => /\ receivableBalance'[a] = receivableBalance[a] + r.base
          /\ incoming[a].state = Undefined
               => ~isLinked(store'[r.task.claim.channelId])]_vars


(***************************************************************************)
(* The cached incoming channel                                             *)
(***************************************************************************)
\* C33: the cached incoming channel always has 0 <= spent <= value: the
\* best claim kept, whether it was the first claim of the account or a
\* later one, is never for more than the channel holds.
C33_SpentWithinValue ==
  \A a \in Accounts :
    incoming[a].state # Undefined
      => /\ 0 <= incoming[a].state.spent
         /\ incoming[a].state.spent <= incoming[a].state.value

====
